---- MODULE Spec2Model ----
(***************************************************************************)
(* StockBot front end: portfolio accounting and live synchronisation.      *)
(*                                                                         *)
(* The model covers the React pages Dashboard, Portfolio, Trading and      *)
(* Configuration, the HoldingsChart component and the WebSocket provider.  *)
(* Money is modelled in whole units (integers); a JavaScript division is   *)
(* kept as an unevaluated quotient [num, den] so that a division by zero   *)
(* (NaN / Infinity) stays visible as den = 0.                              *)
(*                                                                         *)
(* The back end is not part of the sources; the few things the pages need  *)
(* from it (a portfolio, a trade log, a configuration store and the push   *)
(* stream) are modelled from the specification and are marked as such.     *)
(***************************************************************************)
EXTENDS Integers, Sequences, FiniteSets, TLC

(***************************************************************************)
(* Value domains                                                           *)
(***************************************************************************)
Symbols == {"A"}
\* largest quantity and price handed to the views
MaxQty == 2
MaxPrice == 2
Quantities == (0 - MaxQty)..MaxQty
Prices == 0..MaxPrice
NULL == [isNull |-> TRUE]

Abs(x) == IF x < 0 THEN -x ELSE x

\* a / b as JavaScript evaluates it, kept exact: den = 0 is NaN or Infinity
Quot(a, b) == [num |-> a, den |-> b]
\* the literal 0
Zero == [num |-> 0, den |-> 1]
\* equality of two quotients as numbers
QuotEq(x, y) == /\ x.den # 0
                /\ y.den # 0
                /\ x.num * y.den = y.num * x.den

(***************************************************************************)
(* Valuation: the per-holding arithmetic of each view                      *)
(***************************************************************************)
Holding(s, q, avg, cur) ==
    [symbol |-> s, quantity |-> q, average_cost |-> avg, current_price |-> cur]

\* Dashboard.tsx, holdings table row
DashboardTotalReturn(h) == (h.current_price - h.average_cost) * h.quantity

DashboardInitialInvestment(h) == Abs(h.quantity) * h.average_cost

\* (variant: the quotient taken without the guard on the cost basis)
DashboardReturnPercent_NoGuard(h) ==
    Quot(DashboardTotalReturn(h) * 100, DashboardInitialInvestment(h))

DashboardReturnPercent(h) ==
    IF DashboardInitialInvestment(h) > 0
    THEN Quot(DashboardTotalReturn(h) * 100, DashboardInitialInvestment(h))
    ELSE Zero

DashboardRow(h) ==
    [holding       |-> h,
     totalReturn   |-> DashboardTotalReturn(h),
     costBasis     |-> DashboardInitialInvestment(h),
     returnPercent |-> DashboardReturnPercent(h)]

\* Portfolio.tsx, holdings table row
PortfolioTotalReturn(h) == (h.current_price - h.average_cost) * h.quantity

PortfolioInitialInvestment(h) == Abs(h.quantity) * h.average_cost

PortfolioReturnPercent(h) ==
    IF PortfolioInitialInvestment(h) > 0
    THEN Quot(PortfolioTotalReturn(h) * 100, PortfolioInitialInvestment(h))
    ELSE Zero

PortfolioRow(h) ==
    [holding       |-> h,
     totalReturn   |-> PortfolioTotalReturn(h),
     costBasis     |-> PortfolioInitialInvestment(h),
     returnPercent |-> PortfolioReturnPercent(h),
     marketValue   |-> Abs(h.quantity) * h.current_price]

\* Trading.tsx, HoldingRow
\* (variant: the market value taken on the absolute quantity)
HoldingRowMarketValue_Abs(h) == Abs(h.quantity) * h.current_price

HoldingRowMarketValue(h) == h.quantity * h.current_price

HoldingRowCostBasis(h) == h.quantity * h.average_cost

HoldingRowReturnPercent(h) ==
    IF HoldingRowCostBasis(h) > 0
    THEN Quot((HoldingRowMarketValue(h) - HoldingRowCostBasis(h)) * 100,
              HoldingRowCostBasis(h))
    ELSE Zero

HoldingRow(h) ==
    [holding       |-> h,
     totalReturn   |-> HoldingRowMarketValue(h) - HoldingRowCostBasis(h),
     costBasis     |-> HoldingRowCostBasis(h),
     returnPercent |-> HoldingRowReturnPercent(h),
     marketValue   |-> HoldingRowMarketValue(h)]

\* HoldingsChart.tsx, fetchHoldingsWithPrices: one holding, priced with
\* currentPrice (the fetched price, or the stored one when the fetch failed)
ChartUnrealizedPnlPercent(q, avg, currentPrice) ==
    IF q * avg > 0
    THEN Quot((q * currentPrice - q * avg) * 100, q * avg)
    ELSE Zero

ChartHolding(h, currentPrice) ==
    [holding       |-> [h EXCEPT !.current_price = currentPrice],
     totalReturn   |-> h.quantity * currentPrice - h.quantity * h.average_cost,
     costBasis     |-> h.quantity * h.average_cost,
     returnPercent |-> ChartUnrealizedPnlPercent(h.quantity, h.average_cost,
                                                 currentPrice),
     marketValue   |-> h.quantity * currentPrice]

(***************************************************************************)
(* Back end, modelled from the specification: the account the pages poll   *)
(* and the push stream observes.                                           *)
(***************************************************************************)
\* starting cash of the account
InitialCash == 2
\* number of changes (trades, price moves) the back end makes in a run
MaxVer == 2
\* prices the market quotes for a held symbol
SrvPrices == {1, 2}

MarketValue(h) == Abs(h.quantity) * h.current_price
CostBasis(h) == Abs(h.quantity) * h.average_cost

RECURSIVE HoldingsValue(_)
HoldingsValue(hs) ==
    IF hs = {} THEN 0
    ELSE LET h == CHOOSE x \in hs : TRUE
         IN  MarketValue(h) + HoldingsValue(hs \ {h})

RECURSIVE TotalInvested(_)
TotalInvested(hs) ==
    IF hs = {} THEN 0
    ELSE LET h == CHOOSE x \in hs : TRUE
         IN  CostBasis(h) + TotalInvested(hs \ {h})

\* GET summary
SrvSummary(cash, hs) ==
    [cash_balance   |-> cash,
     holdings_value |-> HoldingsValue(hs),
     total_value    |-> cash + HoldingsValue(hs),
     total_return   |-> cash + HoldingsValue(hs)
                           - (InitialCash + TotalInvested(hs)),
     holdings_count |-> Cardinality(hs)]

\* the push message sent after a change; ver is the logical time of the
\* change (the pages never read it)
PortfolioUpdate(cash, hs, ver) ==
    [type    |-> "portfolio_update",
     payload |-> [cash_balance |-> cash,
                  total_value  |-> cash + HoldingsValue(hs)],
     ver     |-> ver]

HeldQty(hs, s) ==
    IF \E h \in hs : h.symbol = s
    THEN (CHOOSE h \in hs : h.symbol = s).quantity
    ELSE 0

\* positions the back end opens: one share long or short
SrvQuantities == {-1, 0, 1}

\* holdings after one share of s is bought (dq = 1) or sold (dq = -1) at
\* price p: a position that returns to zero is removed, a new position is
\* opened at cost p
AfterTrade(hs, s, dq, p) ==
    LET others == {h \in hs : h.symbol # s}
    IN  IF HeldQty(hs, s) + dq = 0 THEN others
        ELSE others \cup {Holding(s, HeldQty(hs, s) + dq, p, p)}

\* holdings after the price of s moves to p
AfterPrice(hs, s, p) ==
    {IF h.symbol = s THEN [h EXCEPT !.current_price = p] ELSE h : h \in hs}

(***************************************************************************)
(* Promise results                                                         *)
(***************************************************************************)
Pending == [pending |-> TRUE]
Failed == [failed |-> TRUE]
Ok(x) == [ok |-> x]

\* an error message held in a page's error state
Err(m) == [message |-> m]

(***************************************************************************)
(* Push handler of the pages (useEffect on lastMessage)                    *)
(***************************************************************************)
\* (variant: a summary made of the payload when there is none)
DashboardApplyUpdate_FromNull(prev, payload) ==
    [cash_balance   |-> payload.cash_balance,
     total_value    |-> payload.total_value,
     holdings_value |-> payload.total_value - payload.cash_balance,
     total_return   |-> IF prev = NULL THEN 0 ELSE prev.total_return,
     holdings_count |-> IF prev = NULL THEN 0 ELSE prev.holdings_count]

\* (variant: the summary rebuilt from the payload without spreading prev)
DashboardApplyUpdate_NoSpread(prev, payload) ==
    IF prev = NULL THEN prev
    ELSE [cash_balance   |-> payload.cash_balance,
          total_value    |-> payload.total_value,
          holdings_value |-> payload.total_value - payload.cash_balance,
          total_return   |-> 0,
          holdings_count |-> 0]

\* Dashboard.tsx: setPortfolioSummary(prev => ...)
DashboardApplyUpdate(prev, payload) ==
    IF prev = NULL THEN prev
    ELSE [prev EXCEPT !.cash_balance = payload.cash_balance,
                      !.total_value = payload.total_value,
                      !.holdings_value = payload.total_value - payload.cash_balance]

\* Portfolio.tsx: setPortfolioSummary(prev => ...)
PortfolioApplyUpdate(prev, payload) ==
    IF prev = NULL THEN prev
    ELSE [prev EXCEPT !.cash_balance = payload.cash_balance,
                      !.total_value = payload.total_value,
                      !.holdings_value = payload.total_value - payload.cash_balance]

(***************************************************************************)
(* Allocation: the budget field of the Dashboard and Configuration pages.  *)
(* portfolio_allocation is a fraction with two decimals in the code and a  *)
(* whole percentage (0..100) here.                                         *)
(***************************************************************************)
\* Math.round(n / d) for d > 0: the nearest integer, halves rounded up
RoundDiv(n, d) == (2 * n + d) \div (2 * d)

\* portfolioSummary?.total_value || dflt
TotalValueOr(summary, dflt) ==
    IF summary = NULL \/ summary.total_value = 0 THEN dflt
    ELSE summary.total_value

\* botConfig?.portfolio_allocation || 1.0
AllocationOrFull(cfg) ==
    IF cfg = NULL \/ cfg.portfolio_allocation = 0 THEN 100
    ELSE cfg.portfolio_allocation

\* Dashboard.tsx, value of the allocation TextField
DashboardBudget(cfg, summary) ==
    IF cfg # NULL /\ cfg.portfolio_allocation_type = "FIXED_AMOUNT"
    THEN cfg.portfolio_allocation_amount
    ELSE RoundDiv(TotalValueOr(summary, 0) * AllocationOrFull(cfg), 100)

\* Configuration.tsx, value of the allocation TextField
ConfigurationBudget(cfg, summary) ==
    IF cfg # NULL /\ cfg.portfolio_allocation_type = "FIXED_AMOUNT"
    THEN cfg.portfolio_allocation_amount
    ELSE RoundDiv(TotalValueOr(summary, 0) * AllocationOrFull(cfg), 100)

\* Configuration.tsx, the percentage in the Portfolio Allocation label and
\* on the slider: Math.round((config?.portfolio_allocation || 1.0) * 100)
ConfigurationPercentLabel(cfg) == AllocationOrFull(cfg)

\* Configuration.tsx, onChange/onBlur of the allocation TextField: the
\* percentage that stands for amount val,
\* Math.round(Math.min(1.0, Math.max(0.01, val / portValue)) * 100) / 100
DerivedPercentage(val, summary) ==
    LET portValue == TotalValueOr(summary, 1) IN
    IF val * 100 <= portValue THEN 1
    ELSE IF val >= portValue THEN 100
    ELSE RoundDiv(val * 100, portValue)

\* Dashboard.tsx onChange: the optimistic update of the local config
DashboardOptimistic(prev, val) ==
    IF prev = NULL THEN NULL
    ELSE [prev EXCEPT !.portfolio_allocation_type = "FIXED_AMOUNT",
                      !.portfolio_allocation_amount = val]

\* Configuration.tsx onChange: the optimistic update of the local config
ConfigurationOptimistic(prev, val, summary) ==
    IF prev = NULL THEN NULL
    ELSE [prev EXCEPT !.portfolio_allocation_type = "FIXED_AMOUNT",
                      !.portfolio_allocation_amount = val,
                      !.portfolio_allocation = DerivedPercentage(val, summary)]

\* the config the back end holds after it stores a partial update
Patched(cfg, patch) ==
    [f \in DOMAIN cfg |-> IF f \in DOMAIN patch THEN patch[f] ELSE cfg[f]]

(***************************************************************************)
(* State                                                                   *)
(***************************************************************************)
VARIABLES
    vh,               \* valuation: the holding handed to the views
    vrows,            \* valuation: what each view has rendered for vh
    srvCash,          \* back end: cash of the account
    srvHoldings,      \* back end: open positions
    srvVer,           \* back end: logical time, one tick per change
    srvTrades,        \* back end: the trade log
    srvBot,           \* back end: bot status
    srvConfig,        \* back end: the stored BotConfig
    wsQueue,          \* push messages sent and not yet delivered
    polls,            \* fetches in flight, in the order they were issued
    saves,            \* config updates in flight, in the order issued
    page,             \* the page that is mounted
    portfolioSummary, \* useState<PortfolioSummary | null>
    holdings,         \* useState<Holding[]>
    trades,           \* useState<Trade[]> (Portfolio page)
    botStatus,        \* useState<BotStatus | null>
    tradingStats,     \* useState<TradingStats | null>
    botConfig,        \* useState<BotConfig | null>
    loading,          \* useState(true)
    error,            \* useState<string | null>
    lastMessage,      \* WebSocketContext: the last parsed message
    analyzing,        \* useState(false) (Trading)
    analysisResult,   \* useState<any>(null) (Trading)
    isConnected,      \* WebSocketContext: useState(false)
    socket,           \* readyState of the WebSocket of the context
    lastIgnored,      \* the frame last received and not stored, if any
    toggling,         \* useState(false) (Dashboard)
    ctl,              \* start / stop / panic-sell requests in flight
    srvPanic,         \* back end: a panic-sell is in progress
    lastPollVer,      \* logical time of the summary last stored by a fetch
    lastFetchFailed   \* whether a request of the fetch last completed failed

valVars == <<vh, vrows>>
srvVars == <<srvCash, srvHoldings, srvVer, srvTrades, srvBot, srvConfig>>
netVars == <<wsQueue, polls, saves>>
dataVars == <<portfolioSummary, holdings, trades, botStatus, tradingStats>>
cliVars == <<page, dataVars, botConfig, loading, error, lastMessage>>
ghostVars == <<lastPollVer, lastFetchFailed>>
botVars == <<toggling, ctl, srvPanic>>
wsVars == <<isConnected, socket, lastIgnored>>
uiVars == <<analyzing, analysisResult, wsVars>>
vars == <<valVars, srvVars, netVars, cliVars, ghostVars, botVars, uiVars>>

NoRow == [none |-> TRUE]
Views == {"dashboard", "portfolio", "trading", "chart"}

(***************************************************************************)
(* Initial state: the page has just been mounted and its mount effect has  *)
(* issued the first fetch.                                                 *)
(***************************************************************************)
DefaultConfig ==
    [portfolio_allocation_type   |-> "PERCENTAGE",
     portfolio_allocation        |-> 100,
     portfolio_allocation_amount |-> 0]

SrvInit ==
    /\ srvCash = InitialCash
    /\ srvHoldings = {}
    /\ srvVer = 0
    /\ srvTrades = <<>>
    /\ srvBot = [is_active |-> FALSE, trades_bought_today |-> 0,
                 trades_sold_today |-> 0]
    /\ srvConfig = DefaultConfig

\* a fetch just issued by page pg; loader is showLoader; late records that
\* the result of a fetch issued after this one has been stored already
NewPoll(pg, loader) ==
    [page |-> pg, loader |-> loader, batch |-> Pending, hold |-> Pending,
     late |-> FALSE]

ClientInit(pg) ==
    /\ page = pg
    /\ portfolioSummary = NULL
    /\ holdings = {}
    /\ trades = <<>>
    /\ botStatus = NULL
    /\ tradingStats = NULL
    /\ botConfig = NULL
    /\ loading = TRUE
    /\ error = NULL
    /\ lastMessage = NULL
    /\ wsQueue = <<>>
    /\ saves = <<>>
    /\ lastPollVer = 0
    /\ lastFetchFailed = FALSE

\* nothing is being analysed and the push connection is open
UiIdle ==
    /\ analyzing = FALSE
    /\ analysisResult = NULL
    /\ isConnected = TRUE
    /\ socket = "OPEN"
    /\ lastIgnored = NULL

\* no start, stop or panic-sell has been asked for
BotIdle ==
    /\ toggling = FALSE
    /\ ctl = <<>>
    /\ srvPanic = FALSE

NoVal ==
    /\ vh = NoRow
    /\ vrows = [v \in Views |-> NoRow]

\* the push queue after the back end has sent msg: a message reaches the
\* client only over an open connection
Broadcast(msg) == IF isConnected THEN Append(wsQueue, msg) ELSE wsQueue

(***************************************************************************)
(* Back end steps                                                          *)
(***************************************************************************)
\* a trade of one share of s at price p by the decision engine
SrvTrade(s, action, p) ==
    LET dq == IF action = "BUY" THEN 1 ELSE -1 IN
    /\ srvVer < MaxVer
    /\ HeldQty(srvHoldings, s) + dq \in SrvQuantities
    /\ action = "BUY" => p <= srvCash
    /\ srvCash' = srvCash - dq * p
    /\ srvHoldings' = AfterTrade(srvHoldings, s, dq, p)
    /\ srvVer' = srvVer + 1
    /\ srvTrades' = Append(srvTrades,
                           [symbol |-> s, action |-> action, quantity |-> 1,
                            price |-> p, total_amount |-> p])
    /\ srvBot' = IF action = "BUY"
                 THEN [srvBot EXCEPT !.trades_bought_today = @ + 1]
                 ELSE [srvBot EXCEPT !.trades_sold_today = @ + 1]
    /\ wsQueue' = Broadcast(PortfolioUpdate(srvCash', srvHoldings', srvVer'))
    /\ UNCHANGED <<uiVars, botVars, valVars, srvConfig, polls, saves, cliVars, ghostVars>>

\* the price of a held symbol moves
SrvPriceMove(s, p) ==
    /\ srvVer < MaxVer
    /\ \E h \in srvHoldings : h.symbol = s /\ h.current_price # p
    /\ srvHoldings' = AfterPrice(srvHoldings, s, p)
    /\ srvVer' = srvVer + 1
    /\ wsQueue' = Broadcast(PortfolioUpdate(srvCash, srvHoldings', srvVer'))
    /\ UNCHANGED <<uiVars, botVars, valVars, srvCash, srvTrades, srvBot, srvConfig, polls,
                   saves, cliVars, ghostVars>>

(***************************************************************************)
(* Fetches (the poll loop)                                                 *)
(***************************************************************************)
\* maximal number of fetches in flight
MaxPolls == 1

RemoveAt(q, i) == SubSeq(q, 1, i - 1) \o SubSeq(q, i + 1, Len(q))

\* the requests in flight after the result of request i has been stored:
\* the ones issued before it are late from now on
Settled(ps, i) ==
    [j \in 1..(Len(ps) - 1) |->
        IF j < i THEN [ps[j] EXCEPT !.late = TRUE] ELSE ps[j + 1]]

\* Dashboard.tsx fetchDashboardData, up to the first await: the interval
\* fires and issues the four requests of the first batch
DashboardFetchStart(showLoader) ==
    /\ page = "Dashboard"
    /\ Len(polls) < MaxPolls
    /\ loading' = IF showLoader THEN TRUE ELSE loading
    /\ error' = NULL
    /\ polls' = Append(polls, NewPoll("Dashboard", showLoader))
    /\ UNCHANGED <<uiVars, botVars, valVars, srvVars, wsQueue, saves, page, dataVars,
                   botConfig, lastMessage, ghostVars>>

\* Portfolio.tsx fetchPortfolioData, up to the await
PortfolioFetchStart ==
    /\ page = "Portfolio"
    /\ Len(polls) < MaxPolls
    /\ loading' = TRUE
    /\ error' = NULL
    /\ polls' = Append(polls, NewPoll("Portfolio", TRUE))
    /\ UNCHANGED <<uiVars, botVars, valVars, srvVars, wsQueue, saves, page, dataVars,
                   botConfig, lastMessage, ghostVars>>

\* the back end reads the state for the first batch of fetch i. Dashboard:
\* summary, bot status, trade summary and config; Portfolio: summary and
\* trade history. Whether a request of the batch fails shows when the fetch
\* completes.
ServeBatch(i) ==
    /\ i \in 1..Len(polls)
    /\ polls[i].batch = Pending
    /\ polls' = [polls EXCEPT ![i].batch =
                    [summary |-> SrvSummary(srvCash, srvHoldings),
                     bot     |-> srvBot,
                     stats   |-> [total_trades |-> Len(srvTrades)],
                     config  |-> srvConfig,
                     history |-> srvTrades,
                     ver     |-> srvVer]]
    /\ UNCHANGED <<uiVars, botVars, valVars, srvVars, wsQueue, saves, cliVars, ghostVars>>

\* the back end reads the holdings for fetch i; the Dashboard asks for them
\* only after the first batch has settled
ServeHoldings(i) ==
    /\ i \in 1..Len(polls)
    /\ polls[i].hold = Pending
    /\ polls[i].page # "Configuration"
    /\ polls[i].page = "Dashboard" => polls[i].batch # Pending
    /\ polls' = [polls EXCEPT ![i].hold = Ok(srvHoldings)]
    /\ UNCHANGED <<uiVars, botVars, valVars, srvVars, wsQueue, saves, cliVars, ghostVars>>

DashboardRequests == {"summary", "bot", "stats", "config", "holdings"}

\* the failures of one fetch that are explored: no request fails, a single
\* one does, or all do (the back end is down)
FailureSets == {{}, DashboardRequests} \cup {{r} : r \in DashboardRequests}

\* req.catch(() => dflt) of a Dashboard request: dflt when it is among the
\* failed ones
Caught(failed, req, value, dflt) == IF req \in failed THEN dflt ELSE value

\* Dashboard.tsx fetchDashboardData, after the awaits; failed is the set of
\* requests that were rejected. Every request has its own catch, so a
\* rejected one yields null (holdings: []) and the outer catch is never
\* entered.
DashboardFetchDone(i, failed) ==
    /\ i \in 1..Len(polls)
    /\ polls[i].page = "Dashboard"
    /\ polls[i].batch # Pending
    /\ polls[i].hold # Pending
    /\ portfolioSummary' = Caught(failed, "summary", polls[i].batch.summary, NULL)
    /\ botStatus' = Caught(failed, "bot", polls[i].batch.bot, NULL)
    /\ tradingStats' = Caught(failed, "stats", polls[i].batch.stats, NULL)
    /\ botConfig' = Caught(failed, "config", polls[i].batch.config, NULL)
    /\ holdings' = Caught(failed, "holdings", polls[i].hold.ok, {})
    /\ loading' = IF polls[i].loader THEN FALSE ELSE loading
    /\ lastPollVer' = IF "summary" \in failed THEN lastPollVer
                      ELSE polls[i].batch.ver
    /\ lastFetchFailed' = (failed # {})
    /\ polls' = Settled(polls, i)
    /\ UNCHANGED <<uiVars, botVars, valVars, srvVars, wsQueue, saves, page, trades, error,
                   lastMessage>>

\* Portfolio.tsx fetchPortfolioData, after the await, all three fulfilled
PortfolioFetchDone(i) ==
    /\ i \in 1..Len(polls)
    /\ polls[i].page = "Portfolio"
    /\ polls[i].batch # Pending
    /\ polls[i].hold # Pending
    /\ portfolioSummary' = polls[i].batch.summary
    /\ holdings' = polls[i].hold.ok
    /\ trades' = polls[i].batch.history
    /\ loading' = FALSE
    /\ lastPollVer' = polls[i].batch.ver
    /\ lastFetchFailed' = FALSE
    /\ polls' = Settled(polls, i)
    /\ UNCHANGED <<uiVars, botVars, valVars, srvVars, wsQueue, saves, page, botStatus,
                   tradingStats, botConfig, error, lastMessage>>

\* Portfolio.tsx fetchPortfolioData, catch: Promise.all rejects as soon as
\* one of the three requests is rejected, whatever the others do
PortfolioFetchFailed(i) ==
    /\ i \in 1..Len(polls)
    /\ polls[i].page = "Portfolio"
    /\ error' = Err("Failed to load portfolio data")
    /\ loading' = FALSE
    /\ lastFetchFailed' = TRUE
    /\ polls' = RemoveAt(polls, i)
    /\ UNCHANGED <<uiVars, botVars, valVars, srvVars, wsQueue, saves, page, dataVars,
                   botConfig, lastMessage, lastPollVer>>

(***************************************************************************)
(* Push stream                                                             *)
(***************************************************************************)
\* frames that are not the JSON text of a message: the heartbeat answer
\* and any other text
Pong == [text |-> "pong"]
Malformed == [text |-> "not json"]
IsText(frame) == "text" \in DOMAIN frame

\* what ws.onmessage makes of a frame it does not store
Ignored == [ignored |-> TRUE]

\* (variant: every frame handed on as a message)
WsParse_Raw(frame) == frame

\* WebSocketContext.tsx ws.onmessage: 'pong' returns at once, JSON.parse
\* throws on a text that is not JSON and the catch only logs it; the
\* message of a JSON frame is handed to setLastMessage
WsParse(frame) ==
    IF frame = Pong THEN Ignored
    ELSE IF IsText(frame) THEN Ignored
    ELSE frame

\* lastMessage.type, undefined when the message has no such property
MessageType(msg) == IF "type" \in DOMAIN msg THEN msg.type ELSE "undefined"

\* WebSocketContext.tsx ws.onmessage followed by the page's effect on
\* lastMessage; only the Dashboard and the Portfolio page have such an
\* effect
WsMessage ==
    /\ isConnected
    /\ wsQueue # <<>>
    /\ LET msg == WsParse(Head(wsQueue)) IN
       IF msg = Ignored
       THEN /\ lastIgnored' = Head(wsQueue)
            /\ UNCHANGED <<lastMessage, portfolioSummary>>
       ELSE /\ lastMessage' = msg
            /\ portfolioSummary' =
                  IF MessageType(msg) # "portfolio_update"
                  THEN portfolioSummary
                  ELSE IF page = "Dashboard"
                  THEN DashboardApplyUpdate(portfolioSummary, msg.payload)
                  ELSE IF page = "Portfolio"
                  THEN PortfolioApplyUpdate(portfolioSummary, msg.payload)
                  ELSE portfolioSummary
            /\ UNCHANGED lastIgnored
    /\ wsQueue' = Tail(wsQueue)
    /\ UNCHANGED <<analyzing, analysisResult, isConnected, socket, botVars,
                   valVars, srvVars, polls, saves, page, holdings, trades,
                   botStatus, tradingStats, botConfig, loading, error,
                   ghostVars>>

(***************************************************************************)
(* Allocation edits and config updates                                     *)
(***************************************************************************)
\* maximal number of config updates in flight
MaxSaves == 1
\* largest amount typed into the allocation field
MaxAmount == 4
\* what the user types into the allocation field: a negative amount, none,
\* one the account covers and a large one (a text that does not parse as a
\* number makes the handlers return at once)
AmountInputs == {0 - 1, 0, 2, MaxAmount}
\* positions of the allocation slider (min 5, max 100, step 1)
SliderInputs == {5, 100}

\* the allocation controls are rendered and enabled
AllocationEditable ==
    /\ page \in {"Dashboard", "Configuration"}
    /\ ~loading
    /\ botConfig # NULL
    /\ portfolioSummary # NULL

\* Dashboard.tsx, allocation TextField onChange
DashboardAllocChange(val) ==
    /\ page = "Dashboard"
    /\ AllocationEditable
    /\ botConfig' = DashboardOptimistic(botConfig, val)
    /\ botConfig' # botConfig
    /\ UNCHANGED <<uiVars, botVars, valVars, srvVars, netVars, page, dataVars, loading, error,
                   lastMessage, ghostVars>>

\* Configuration.tsx, allocation TextField onChange
ConfigurationAllocChange(val) ==
    /\ page = "Configuration"
    /\ AllocationEditable
    /\ botConfig' = ConfigurationOptimistic(botConfig, val, portfolioSummary)
    /\ botConfig' # botConfig
    /\ UNCHANGED <<uiVars, botVars, valVars, srvVars, netVars, page, dataVars, loading, error,
                   lastMessage, ghostVars>>

\* Dashboard.tsx, allocation TextField onBlur up to the await: the field is
\* controlled, so its text is the budget on display
DashboardAllocBlur ==
    LET val == DashboardBudget(botConfig, portfolioSummary) IN
    /\ page = "Dashboard"
    /\ AllocationEditable
    /\ Len(saves) < MaxSaves
    /\ val >= 0
    /\ saves' = Append(saves,
                       [patch |-> [portfolio_allocation_type |-> "FIXED_AMOUNT",
                                   portfolio_allocation_amount |-> val],
                        resp |-> Pending, late |-> FALSE])
    /\ UNCHANGED <<uiVars, botVars, valVars, srvVars, wsQueue, polls, cliVars, ghostVars>>

\* Configuration.tsx, allocation TextField onBlur up to the await
ConfigurationAllocBlur ==
    LET val == ConfigurationBudget(botConfig, portfolioSummary) IN
    /\ page = "Configuration"
    /\ AllocationEditable
    /\ Len(saves) < MaxSaves
    /\ val >= 0
    /\ saves' = Append(saves,
                       [patch |-> [portfolio_allocation_type |-> "FIXED_AMOUNT",
                                   portfolio_allocation_amount |-> val,
                                   portfolio_allocation |->
                                       DerivedPercentage(val, portfolioSummary)],
                        resp |-> Pending, late |-> FALSE])
    /\ UNCHANGED <<uiVars, botVars, valVars, srvVars, wsQueue, polls, cliVars, ghostVars>>

\* Configuration.tsx, Slider onChange: handleChange('portfolio_allocation', v)
SliderChange(v) ==
    /\ page = "Configuration"
    /\ ~loading
    /\ botConfig # NULL
    /\ botConfig' = [botConfig EXCEPT !.portfolio_allocation = v]
    /\ botConfig' # botConfig
    /\ UNCHANGED <<uiVars, botVars, valVars, srvVars, netVars, page, dataVars, loading, error,
                   lastMessage, ghostVars>>

\* Configuration.tsx, Slider onChangeCommitted up to the await: the slider
\* shows Math.round((config?.portfolio_allocation || 1.0) * 100)
SliderCommitted ==
    /\ page = "Configuration"
    /\ ~loading
    /\ botConfig # NULL
    /\ Len(saves) < MaxSaves
    /\ saves' = Append(saves,
                       [patch |-> [portfolio_allocation_type |-> "PERCENTAGE",
                                   portfolio_allocation |->
                                       AllocationOrFull(botConfig)],
                        resp |-> Pending, late |-> FALSE])
    /\ UNCHANGED <<uiVars, botVars, valVars, srvVars, wsQueue, polls, cliVars, ghostVars>>

\* the back end handles config update i: it stores the patch and answers
\* with the resulting config
SrvUpdateConfig(i) ==
    /\ i \in 1..Len(saves)
    /\ saves[i].resp = Pending
    /\ srvConfig' = Patched(srvConfig, saves[i].patch)
    /\ saves' = [saves EXCEPT ![i].resp = Ok(srvConfig')]
    /\ UNCHANGED <<uiVars, botVars, valVars, srvCash, srvHoldings, srvVer, srvTrades, srvBot,
                   wsQueue, polls, cliVars, ghostVars>>

\* config update i is rejected and nothing is stored
SrvRejectConfig(i) ==
    /\ i \in 1..Len(saves)
    /\ saves[i].resp = Pending
    /\ saves' = [saves EXCEPT ![i].resp = Failed]
    /\ UNCHANGED <<uiVars, botVars, valVars, srvVars, wsQueue, polls, cliVars, ghostVars>>

\* onBlur / onChangeCommitted after the await: setBotConfig(updated), or the
\* catch, which only logs; late in a config update records that the
\* response to one issued after it has been stored already
SaveDone(i) ==
    /\ i \in 1..Len(saves)
    /\ saves[i].resp # Pending
    /\ botConfig' = IF saves[i].resp = Failed THEN botConfig
                    ELSE saves[i].resp.ok
    /\ saves' = IF saves[i].resp = Failed THEN RemoveAt(saves, i)
               ELSE Settled(saves, i)
    /\ UNCHANGED <<uiVars, botVars, valVars, srvVars, wsQueue, polls, page, dataVars, loading,
                   error, lastMessage, ghostVars>>

\* Configuration.tsx fetchConfig after the await; the config request has no
\* catch of its own, the other two yield null when rejected
ConfigurationFetchDone(i, failed) ==
    /\ i \in 1..Len(polls)
    /\ polls[i].page = "Configuration"
    /\ polls[i].batch # Pending
    /\ IF "config" \in failed
       THEN /\ error' = Err("Failed to load configuration data")
            /\ UNCHANGED <<botConfig, botStatus, portfolioSummary, lastPollVer>>
       ELSE /\ botConfig' = polls[i].batch.config
            /\ botStatus' = Caught(failed, "bot", polls[i].batch.bot, NULL)
            /\ portfolioSummary' =
                  Caught(failed, "summary", polls[i].batch.summary, NULL)
            /\ lastPollVer' = IF "summary" \in failed THEN lastPollVer
                              ELSE polls[i].batch.ver
            /\ UNCHANGED error
    /\ loading' = FALSE
    /\ lastFetchFailed' = (failed # {})
    /\ polls' = RemoveAt(polls, i)
    /\ UNCHANGED <<uiVars, botVars, valVars, srvVars, wsQueue, saves, page, holdings, trades,
                   tradingStats, lastMessage>>

(***************************************************************************)
(* Synchronisation specification: one page, the poll loop, the push stream *)
(* and a back end that trades and reprices.                                *)
(***************************************************************************)
SyncInit ==
    /\ NoVal
    /\ UiIdle
    /\ BotIdle
    /\ SrvInit
    /\ \E pg \in {"Dashboard", "Portfolio"} :
          /\ ClientInit(pg)
          /\ polls = <<NewPoll(pg, TRUE)>>

SyncNext ==
    \/ \E s \in Symbols, a \in {"BUY", "SELL"}, p \in SrvPrices : SrvTrade(s, a, p)
    \/ \E s \in Symbols, p \in SrvPrices : SrvPriceMove(s, p)
    \/ DashboardFetchStart(FALSE)
    \/ PortfolioFetchStart
    \/ \E i \in 1..MaxPolls : ServeBatch(i)
    \/ \E i \in 1..MaxPolls : ServeHoldings(i)
    \/ \E i \in 1..MaxPolls, failed \in FailureSets :
          DashboardFetchDone(i, failed)
    \/ \E i \in 1..MaxPolls : PortfolioFetchDone(i)
    \/ \E i \in 1..MaxPolls : PortfolioFetchFailed(i)
    \/ WsMessage

SpecSync == SyncInit /\ [][SyncNext]_vars

(***************************************************************************)
(* Configuration specification: the allocation controls of the Dashboard   *)
(* or the Configuration page, the config store, and a priced position so   *)
(* that the total value moves.                                             *)
(***************************************************************************)
CfgInit ==
    /\ NoVal
    /\ UiIdle
    /\ BotIdle
    /\ srvCash = 1
    /\ srvHoldings = {Holding("A", 1, 1, 1)}
    /\ srvVer = 0
    /\ srvTrades = <<[symbol |-> "A", action |-> "BUY", quantity |-> 1,
                      price |-> 1, total_amount |-> 1]>>
    /\ srvBot = [is_active |-> FALSE, trades_bought_today |-> 1,
                 trades_sold_today |-> 0]
    /\ srvConfig = DefaultConfig
    /\ \E pg \in {"Dashboard", "Configuration"} :
          /\ ClientInit(pg)
          /\ polls = <<NewPoll(pg, TRUE)>>

CfgNext ==
    \/ \E s \in Symbols, p \in SrvPrices : SrvPriceMove(s, p)
    \/ DashboardFetchStart(FALSE)
    \/ \E i \in 1..MaxPolls : ServeBatch(i)
    \/ \E i \in 1..MaxPolls : ServeHoldings(i)
    \/ \E i \in 1..MaxPolls : DashboardFetchDone(i, {})
    \/ \E i \in 1..MaxPolls, failed \in {{}, {"config"}} :
          ConfigurationFetchDone(i, failed)
    \/ WsMessage
    \/ \E val \in AmountInputs : DashboardAllocChange(val)
    \/ \E val \in AmountInputs : ConfigurationAllocChange(val)
    \/ DashboardAllocBlur
    \/ ConfigurationAllocBlur
    \/ \E v \in SliderInputs : SliderChange(v)
    \/ SliderCommitted
    \/ \E i \in 1..MaxSaves : SrvUpdateConfig(i)
    \/ \E i \in 1..MaxSaves : SrvRejectConfig(i)
    \/ \E i \in 1..MaxSaves : SaveDone(i)

SpecCfg == CfgInit /\ [][CfgNext]_vars

\* the step delivers the push message at the head of the stream
PushStep == wsQueue # <<>> /\ wsQueue' = Tail(wsQueue)

\* the step completes a fetch
FetchCompletes == Len(polls') < Len(polls)

OtherSummaryFields == {"total_return", "holdings_count"}

\* C1: a push delta whose logical time is not later than that of the last
\* fetch result is discarded: the summary stays as the fetch left it.
C1_StalePushDiscarded ==
    [][(PushStep /\ Head(wsQueue).ver <= lastPollVer)
          => portfolioSummary' = portfolioSummary]_vars

\* C2: a fetch that fails while data is displayed leaves summary, holdings,
\* bot status and stats as they were and only sets the error.
C2_FailedPollKeepsData ==
    [][(/\ FetchCompletes
        /\ lastFetchFailed'
        /\ portfolioSummary # NULL
        /\ page = "Dashboard" => botStatus # NULL /\ tradingStats # NULL)
          => /\ portfolioSummary' = portfolioSummary
             /\ holdings' = holdings
             /\ botStatus' = botStatus
             /\ tradingStats' = tradingStats
             /\ error' # NULL]_vars

C4_SnapshotConsistent ==
    portfolioSummary # NULL =>
        /\ portfolioSummary.total_value =
              portfolioSummary.cash_balance + portfolioSummary.holdings_value
        /\ portfolioSummary.holdings_value = HoldingsValue(holdings)

\* the step completes config update i
SaveCompletes(i) ==
    /\ i \in 1..Len(saves)
    /\ saves' \in {RemoveAt(saves, i), Settled(saves, i)}

\* C5: while the update of an allocation edit is in flight, a fetch that
\* completes leaves the edited fields of the local config alone.
C5_EditPinnedAgainstPoll ==
    [][(saves # <<>> /\ FetchCompletes /\ botConfig # NULL)
          => /\ botConfig' # NULL
             /\ \A i \in 1..Len(saves) : \A f \in DOMAIN saves[i].patch :
                   botConfig'[f] = botConfig[f]]_vars

\* C6: when the update of an allocation edit fails, the edited fields of
\* the local config are back at what the config store holds.
C6_RollbackOnFailure ==
    [][\A i \in 1..MaxSaves :
          (SaveCompletes(i) /\ saves[i].resp = Failed /\ botConfig # NULL)
             => \A f \in DOMAIN saves[i].patch :
                   botConfig'[f] = srvConfig'[f]]_vars

\* the budget the allocation field shows
Budget ==
    IF page = "Dashboard" THEN DashboardBudget(botConfig, portfolioSummary)
    ELSE ConfigurationBudget(botConfig, portfolioSummary)

\* C10: the budget on display is never negative and never above the total
\* value on display.
C10_BudgetWithinTotal ==
    AllocationEditable =>
        /\ Budget >= 0
        /\ Budget <= portfolioSummary.total_value

(***************************************************************************)
(* Valuation specification: a holding drawn from the value domains is      *)
(* rendered by each view.                                                  *)
(***************************************************************************)
ValInit ==
    /\ vh \in {Holding(s, q, a, c) : s \in {"A"}, q \in Quantities,
                                     a \in Prices, c \in Prices}
    /\ vrows = [v \in Views |-> NoRow]
    /\ SrvInit
    /\ ClientInit("Trading")
    /\ polls = <<>>
    /\ BotIdle
    /\ UiIdle

RenderDashboardRow ==
    /\ vrows["dashboard"] = NoRow
    /\ vrows' = [vrows EXCEPT !["dashboard"] = DashboardRow(vh)]
    /\ UNCHANGED <<uiVars, botVars, vh, srvVars, netVars, cliVars, ghostVars>>

RenderPortfolioRow ==
    /\ vrows["portfolio"] = NoRow
    /\ vrows' = [vrows EXCEPT !["portfolio"] = PortfolioRow(vh)]
    /\ UNCHANGED <<uiVars, botVars, vh, srvVars, netVars, cliVars, ghostVars>>

RenderHoldingRow ==
    /\ vrows["trading"] = NoRow
    /\ vrows' = [vrows EXCEPT !["trading"] = HoldingRow(vh)]
    /\ UNCHANGED <<uiVars, botVars, vh, srvVars, netVars, cliVars, ghostVars>>

\* the price request of the chart succeeds with some price
RenderChartPriced ==
    /\ vrows["chart"] = NoRow
    /\ \E p \in Prices :
          vrows' = [vrows EXCEPT !["chart"] = ChartHolding(vh, p)]
    /\ UNCHANGED <<uiVars, botVars, vh, srvVars, netVars, cliVars, ghostVars>>

\* the price request of the chart fails: fall back to the stored price
RenderChartFallback ==
    /\ vrows["chart"] = NoRow
    /\ vrows' = [vrows EXCEPT !["chart"] = ChartHolding(vh, vh.current_price)]
    /\ UNCHANGED <<uiVars, botVars, vh, srvVars, netVars, cliVars, ghostVars>>

ValNext ==
    \/ RenderDashboardRow
    \/ RenderPortfolioRow
    \/ RenderHoldingRow
    \/ RenderChartPriced
    \/ RenderChartFallback

SpecVal == ValInit /\ [][ValNext]_vars

Rendered == {v \in Views : vrows[v] # NoRow}

\* C7: in every view the dollar return of a holding with signed quantity q
\* is (currentPrice - averageCost) * q, for long and short positions alike.
C7_TotalReturnSigned ==
    \A v \in Rendered :
        LET r == vrows[v] IN
        r.totalReturn =
            (r.holding.current_price - r.holding.average_cost) * r.holding.quantity

\* a short position that moved in price has been rendered by all four views
C7_Witness ==
    /\ Rendered = Views
    /\ vh.quantity < 0
    /\ vh.current_price # vh.average_cost
    /\ vrows["trading"].totalReturn # 0

\* C8: for q # 0 the Portfolio table, the Trading row and the chart all use
\* marketValue = |q| * currentPrice and costBasis = |q| * averageCost, and so
\* show the same returnPercent for the same holding.
C8_ViewsAgree ==
    \A v \in Rendered \ {"dashboard"} :
        LET r == vrows[v] IN
        r.holding.quantity # 0 =>
            /\ r.marketValue = Abs(r.holding.quantity) * r.holding.current_price
            /\ r.costBasis = Abs(r.holding.quantity) * r.holding.average_cost
            /\ \A w \in Rendered \ {"dashboard"} :
                  vrows[w].holding = r.holding =>
                      QuotEq(vrows[w].returnPercent, r.returnPercent)

MaxTotal == 8
\* total values of the account, an empty account included
TotalValues == 0..MaxTotal
\* portfolio_allocation as the config store may hold it, in whole percent:
\* none, the least the field derives, a third, a half and all
AllocPercents == {0, 1, 33, 50, 100}
\* amounts typed into the allocation field
TypedAmounts == (0 - 1)..(MaxTotal + 1)

AllocInit ==
    /\ NoVal
    /\ UiIdle
    /\ BotIdle
    /\ \E V \in TotalValues, p \in AllocPercents,
          pg \in {"Dashboard", "Configuration"} :
          LET cfg == [DefaultConfig EXCEPT !.portfolio_allocation = p] IN
          /\ srvCash = V
          /\ srvConfig = cfg
          /\ page = pg
          /\ portfolioSummary = SrvSummary(V, {})
          /\ botConfig = cfg
    /\ srvHoldings = {}
    /\ srvVer = 0
    /\ srvTrades = <<>>
    /\ srvBot = [is_active |-> FALSE, trades_bought_today |-> 0,
                 trades_sold_today |-> 0]
    /\ holdings = {}
    /\ trades = <<>>
    /\ botStatus = srvBot
    /\ tradingStats = [total_trades |-> 0]
    /\ loading = FALSE
    /\ error = NULL
    /\ lastMessage = NULL
    /\ wsQueue = <<>>
    /\ polls = <<>>
    /\ saves = <<>>
    /\ lastPollVer = 0
    /\ lastFetchFailed = FALSE

AllocNext ==
    \/ \E val \in TypedAmounts : DashboardAllocChange(val)
    \/ \E val \in TypedAmounts : ConfigurationAllocChange(val)
    \/ DashboardAllocBlur
    \/ ConfigurationAllocBlur
    \/ \E i \in 1..MaxSaves : SrvUpdateConfig(i)
    \/ \E i \in 1..MaxSaves : SaveDone(i)

SpecAlloc == AllocInit /\ [][AllocNext]_vars

\* the step types the budget on display back into the allocation field of
\* a config held as a percentage
RetypesBudget ==
    /\ AllocationEditable
    /\ botConfig.portfolio_allocation_type = "PERCENTAGE"
    /\ botConfig'.portfolio_allocation_type = "FIXED_AMOUNT"
    /\ botConfig'.portfolio_allocation_amount = Budget

\* C11: at a fixed total value V > 0, showing a percentage p as a dollar
\* budget and typing that budget back yields a percentage within one
\* percentage point of p.
C11_RoundTrip ==
    [][(RetypesBudget /\ page = "Configuration"
        /\ portfolioSummary.total_value > 0)
          => Abs(botConfig'.portfolio_allocation
                 - botConfig.portfolio_allocation) <= 1]_vars

\* C12: a config held as a percentage p, p = 0 included, over a total value
\* V >= 0 shows the dollar budget round(p * V).
C12_PercentageBudget ==
    (AllocationEditable /\ botConfig.portfolio_allocation_type = "PERCENTAGE")
        => Budget = RoundDiv(botConfig.portfolio_allocation
                                * portfolioSummary.total_value, 100)

\* the step edits the amount of the local config
EditsAmount ==
    /\ AllocationEditable
    /\ saves' = saves
    /\ botConfig'.portfolio_allocation_amount
          # botConfig.portfolio_allocation_amount

\* the step issues a config update that carries an amount
SavesAmount ==
    /\ Len(saves') > Len(saves)
    /\ "portfolio_allocation_amount" \in DOMAIN saves'[Len(saves')].patch

\* C13: over a total value V > 0 every edit of the amount A recomputes the
\* display percentage as clamp(A / V, 0.01, 1.00) rounded to 1%, and the
\* update sent to the config store carries that percentage with the amount.
C13_PercentageFollowsAmount ==
    [][portfolioSummary # NULL /\ TotalValueOr(portfolioSummary, 0) > 0 =>
       /\ EditsAmount =>
             /\ botConfig'.portfolio_allocation_type = "FIXED_AMOUNT"
             /\ botConfig'.portfolio_allocation =
                   DerivedPercentage(botConfig'.portfolio_allocation_amount,
                                     portfolioSummary)
       /\ SavesAmount =>
             LET patch == saves'[Len(saves')].patch IN
             /\ "portfolio_allocation" \in DOMAIN patch
             /\ patch.portfolio_allocation =
                   DerivedPercentage(patch.portfolio_allocation_amount,
                                     portfolioSummary)]_vars

(***************************************************************************)
(* Bot control: start, stop and panic-sell.  The pages issue the requests; *)
(* the bot status state machine and the liquidation are the back end's.    *)
(***************************************************************************)
\* maximal number of start / stop / panic-sell requests in flight
MaxCtl == 2

\* a control request just issued
NewCtl(kind) == [kind |-> kind, resp |-> Pending, status |-> Pending]

\* the answer to a panic-sell that has been accepted and is still running
Running == [running |-> TRUE]

\* the SELL trades that liquidate hs: one per holding, |quantity| shares at
\* the holding's current price
RECURSIVE Liquidation(_)
Liquidation(hs) ==
    IF hs = {} THEN <<>>
    ELSE LET h == CHOOSE x \in hs : TRUE
         IN  <<[symbol |-> h.symbol, action |-> "SELL",
                quantity |-> Abs(h.quantity), price |-> h.current_price,
                total_amount |-> Abs(h.quantity) * h.current_price]>>
             \o Liquidation(hs \ {h})

\* proceeds with the sign of the quantity: covering a short costs cash
RECURSIVE Proceeds_Signed(_)
Proceeds_Signed(hs) ==
    IF hs = {} THEN 0
    ELSE LET h == CHOOSE x \in hs : TRUE
         IN  h.quantity * h.current_price + Proceeds_Signed(hs \ {h})

\* the cash a liquidation of hs brings in
RECURSIVE Proceeds(_)
Proceeds(hs) ==
    IF hs = {} THEN 0
    ELSE LET h == CHOOSE x \in hs : TRUE
         IN  Abs(h.quantity) * h.current_price + Proceeds(hs \ {h})

\* start() that does not look at the state: every start is a transition
SrvStart_NoCheck(i) ==
    /\ i \in 1..Len(ctl)
    /\ ctl[i].kind = "start"
    /\ ctl[i].resp = Pending
    /\ ctl' = [ctl EXCEPT ![i].resp = Ok("started")]
    /\ srvBot' = [srvBot EXCEPT !.is_active = TRUE]
    /\ UNCHANGED <<uiVars, valVars, srvCash, srvHoldings, srvVer, srvTrades,
                   srvConfig, netVars, cliVars, ghostVars, toggling, srvPanic>>

\* start(): INACTIVE -> ACTIVE, AlreadyActive when active
SrvStart(i) ==
    /\ i \in 1..Len(ctl)
    /\ ctl[i].kind = "start"
    /\ ctl[i].resp = Pending
    /\ IF srvBot.is_active
       THEN /\ ctl' = [ctl EXCEPT ![i].resp = Err("AlreadyActive")]
            /\ UNCHANGED srvBot
       ELSE /\ ctl' = [ctl EXCEPT ![i].resp = Ok("started")]
            /\ srvBot' = [srvBot EXCEPT !.is_active = TRUE]
    /\ UNCHANGED <<uiVars, valVars, srvCash, srvHoldings, srvVer, srvTrades,
                   srvConfig, netVars, cliVars, ghostVars, toggling, srvPanic>>

\* stop(): any state -> INACTIVE, always succeeds
SrvStop(i) ==
    /\ i \in 1..Len(ctl)
    /\ ctl[i].kind = "stop"
    /\ ctl[i].resp = Pending
    /\ ctl' = [ctl EXCEPT ![i].resp = Ok("stopped")]
    /\ srvBot' = [srvBot EXCEPT !.is_active = FALSE]
    /\ UNCHANGED <<uiVars, valVars, srvCash, srvHoldings, srvVer, srvTrades,
                   srvConfig, netVars, cliVars, ghostVars, toggling, srvPanic>>

\* the status request that follows a start or stop that succeeded
SrvServeStatus(i) ==
    /\ i \in 1..Len(ctl)
    /\ ctl[i].kind \in {"start", "stop"}
    /\ ctl[i].resp \in {Ok("started"), Ok("stopped")}
    /\ ctl[i].status = Pending
    /\ ctl' = [ctl EXCEPT ![i].status = Ok(srvBot)]
    /\ UNCHANGED <<uiVars, valVars, srvVars, netVars, cliVars, ghostVars, toggling,
                   srvPanic>>

\* panicSell() accepted: the bot goes INACTIVE and every holding is sold at
\* its current price in one transaction
SrvPanicSell(i) ==
    /\ i \in 1..Len(ctl)
    /\ ctl[i].kind = "panic"
    /\ ctl[i].resp = Pending
    /\ srvBot.is_active
    /\ ~srvPanic
    /\ srvPanic' = TRUE
    /\ ctl' = [ctl EXCEPT ![i].resp = Running]
    /\ srvBot' = [srvBot EXCEPT !.is_active = FALSE,
                                !.trades_sold_today =
                                    @ + Cardinality(srvHoldings)]
    /\ srvCash' = srvCash + Proceeds(srvHoldings)
    /\ srvTrades' = srvTrades \o Liquidation(srvHoldings)
    /\ srvHoldings' = {}
    /\ IF srvHoldings = {}
       THEN UNCHANGED <<srvVer, wsQueue>>
       ELSE /\ srvVer' = srvVer + 1
            /\ wsQueue' = Broadcast(PortfolioUpdate(srvCash', {}, srvVer'))
    /\ UNCHANGED <<uiVars, valVars, srvConfig, polls, saves, cliVars, ghostVars,
                   toggling>>

\* the panic-sell in progress resolves
SrvPanicDone(i) ==
    /\ i \in 1..Len(ctl)
    /\ ctl[i].resp = Running
    /\ srvPanic' = FALSE
    /\ ctl' = [ctl EXCEPT ![i].resp = Ok("liquidated")]
    /\ UNCHANGED <<uiVars, valVars, srvVars, netVars, cliVars, ghostVars, toggling>>

\* panicSell() refused without telling a panic-sell in progress apart
SrvPanicReject_NotActive(i) ==
    /\ i \in 1..Len(ctl)
    /\ ctl[i].kind = "panic"
    /\ ctl[i].resp = Pending
    /\ srvPanic \/ ~srvBot.is_active
    /\ ctl' = [ctl EXCEPT ![i].resp = Err("NotActive")]
    /\ UNCHANGED <<uiVars, valVars, srvVars, netVars, cliVars, ghostVars, toggling,
                   srvPanic>>

\* panicSell() refused: one is in progress, or the bot is not active
SrvPanicReject(i) ==
    /\ i \in 1..Len(ctl)
    /\ ctl[i].kind = "panic"
    /\ ctl[i].resp = Pending
    /\ srvPanic \/ ~srvBot.is_active
    /\ ctl' = [ctl EXCEPT ![i].resp =
                  IF srvPanic THEN Err("PanicInProgress")
                  ELSE Err("NotActive")]
    /\ UNCHANGED <<uiVars, valVars, srvVars, netVars, cliVars, ghostVars, toggling,
                   srvPanic>>

\* (variant: handleBotToggle without the test of toggling)
DashboardToggle_NoGuard ==
    /\ page = "Dashboard"
    /\ ~loading
    /\ botStatus # NULL
    /\ Len(ctl) < MaxCtl
    /\ toggling' = TRUE
    /\ ctl' = Append(ctl, NewCtl(IF botStatus.is_active THEN "stop"
                                 ELSE "start"))
    /\ UNCHANGED <<uiVars, valVars, srvVars, netVars, cliVars, ghostVars, srvPanic>>

\* Dashboard.tsx handleBotToggle up to the first await
DashboardToggle ==
    /\ page = "Dashboard"
    /\ ~loading
    /\ botStatus # NULL
    /\ ~toggling
    /\ Len(ctl) < MaxCtl
    /\ toggling' = TRUE
    /\ ctl' = Append(ctl, NewCtl(IF botStatus.is_active THEN "stop"
                                 ELSE "start"))
    /\ UNCHANGED <<uiVars, valVars, srvVars, netVars, cliVars, ghostVars, srvPanic>>

\* Configuration.tsx handleBotToggle up to the first await
ConfigurationToggle ==
    /\ page = "Configuration"
    /\ ~loading
    /\ botConfig # NULL
    /\ botStatus # NULL
    /\ Len(ctl) < MaxCtl
    /\ ctl' = Append(ctl, NewCtl(IF botStatus.is_active THEN "stop"
                                 ELSE "start"))
    /\ UNCHANGED <<uiVars, valVars, srvVars, netVars, cliVars, ghostVars, toggling,
                   srvPanic>>

\* handleBotToggle after the awaits: the refreshed status is stored, or the
\* catch sets the error; the Dashboard's finally clears toggling
ToggleDone(i) ==
    /\ i \in 1..Len(ctl)
    /\ ctl[i].kind \in {"start", "stop"}
    /\ \/ /\ ctl[i].status # Pending
          /\ botStatus' = ctl[i].status.ok
          /\ UNCHANGED error
       \/ /\ ctl[i].resp = Err("AlreadyActive")
          /\ error' = Err("Failed to toggle bot status")
          /\ UNCHANGED botStatus
    /\ toggling' = IF page = "Dashboard" THEN FALSE ELSE toggling
    /\ ctl' = RemoveAt(ctl, i)
    /\ UNCHANGED <<uiVars, valVars, srvVars, netVars, page, portfolioSummary,
                   holdings, trades, tradingStats, botConfig, loading,
                   lastMessage, ghostVars, srvPanic>>

\* the panic-sell button rendered whatever the bot status
DashboardPanic_NoGuard ==
    /\ page = "Dashboard"
    /\ ~loading
    /\ Len(ctl) < MaxCtl
    /\ ctl' = Append(ctl, NewCtl("panic"))
    /\ UNCHANGED <<uiVars, valVars, srvVars, netVars, cliVars, ghostVars, toggling,
                   srvPanic>>

\* Dashboard.tsx, SELL ALL AND STOP BOT onClick up to the await; the button
\* is rendered while the bot status on display is active, and the user
\* confirms
DashboardPanic ==
    /\ page = "Dashboard"
    /\ ~loading
    /\ botStatus # NULL
    /\ botStatus.is_active
    /\ Len(ctl) < MaxCtl
    /\ ctl' = Append(ctl, NewCtl("panic"))
    /\ UNCHANGED <<uiVars, valVars, srvVars, netVars, cliVars, ghostVars, toggling,
                   srvPanic>>

\* Configuration.tsx, SELL ALL AND STOP BOT onClick up to the await
ConfigurationPanic ==
    /\ page = "Configuration"
    /\ ~loading
    /\ botConfig # NULL
    /\ botStatus # NULL
    /\ botStatus.is_active
    /\ Len(ctl) < MaxCtl
    /\ ctl' = Append(ctl, NewCtl("panic"))
    /\ UNCHANGED <<uiVars, valVars, srvVars, netVars, cliVars, ghostVars, toggling,
                   srvPanic>>

\* the panic-sell onClick after the await: on success the page fetches its
\* data again (fetchDashboardData(true) / fetchConfig()), on failure it
\* only alerts
PanicDone(i) ==
    /\ i \in 1..Len(ctl)
    /\ ctl[i].kind = "panic"
    /\ \/ /\ ctl[i].resp = Ok("liquidated")
          /\ Len(polls) < MaxPolls
          /\ polls' = Append(polls, NewPoll(page, TRUE))
          /\ loading' = TRUE
          /\ error' = IF page = "Dashboard" THEN NULL ELSE error
       \/ /\ ctl[i].resp \in {Err("PanicInProgress"), Err("NotActive")}
          /\ UNCHANGED <<polls, loading, error>>
    /\ ctl' = RemoveAt(ctl, i)
    /\ UNCHANGED <<uiVars, valVars, srvVars, wsQueue, saves, page, dataVars,
                   botConfig, lastMessage, ghostVars, toggling, srvPanic>>

(***************************************************************************)
(* Bot specification: a loaded Dashboard or Configuration page over an     *)
(* account with open positions.                                            *)
(***************************************************************************)
\* the portfolio of the liquidation example: long 10 AAPL bought at 150 and
\* quoted at 160, short 5 TSLA sold at 200 and quoted at 190
ExamplePortfolio ==
    {Holding("AAPL", 10, 150, 160), Holding("TSLA", 0 - 5, 200, 190)}

BotPortfolios == {{Holding("A", 1, 1, 1)}, ExamplePortfolio}

BotInit ==
    /\ NoVal
    /\ UiIdle
    /\ srvCash = 1
    /\ srvHoldings \in BotPortfolios
    /\ srvVer = 0
    /\ srvTrades = <<>>
    /\ srvBot = [is_active |-> FALSE, trades_bought_today |-> 1,
                 trades_sold_today |-> 0]
    /\ \E type \in {"PERCENTAGE", "FIXED_AMOUNT"} :
          srvConfig = [portfolio_allocation_type   |-> type,
                       portfolio_allocation        |-> 50,
                       portfolio_allocation_amount |-> 1]
    /\ srvPanic = FALSE
    /\ page \in {"Dashboard", "Configuration"}
    /\ portfolioSummary = SrvSummary(srvCash, srvHoldings)
    /\ holdings = IF page = "Dashboard" THEN srvHoldings ELSE {}
    /\ trades = <<>>
    /\ botStatus = srvBot
    /\ tradingStats = IF page = "Dashboard" THEN [total_trades |-> 0] ELSE NULL
    /\ botConfig = srvConfig
    /\ loading = FALSE
    /\ error = NULL
    /\ lastMessage = NULL
    /\ toggling = FALSE
    /\ ctl = <<>>
    /\ wsQueue = <<>>
    /\ polls = <<>>
    /\ saves = <<>>
    /\ lastPollVer = 0
    /\ lastFetchFailed = FALSE

BotNext ==
    \/ \E s \in Symbols, p \in SrvPrices : SrvPriceMove(s, p)
    \/ WsMessage
    \/ \E i \in 1..MaxPolls : ServeBatch(i)
    \/ \E i \in 1..MaxPolls : ServeHoldings(i)
    \/ \E i \in 1..MaxPolls : DashboardFetchDone(i, {})
    \/ \E i \in 1..MaxPolls : ConfigurationFetchDone(i, {})
    \/ DashboardToggle
    \/ ConfigurationToggle
    \/ DashboardPanic
    \/ ConfigurationPanic
    \/ \E i \in 1..MaxCtl : SrvStart(i)
    \/ \E i \in 1..MaxCtl : SrvStop(i)
    \/ \E i \in 1..MaxCtl : SrvServeStatus(i)
    \/ \E i \in 1..MaxCtl : SrvPanicSell(i)
    \/ \E i \in 1..MaxCtl : SrvPanicDone(i)
    \/ \E i \in 1..MaxCtl : SrvPanicReject(i)
    \/ \E i \in 1..MaxCtl : ToggleDone(i)
    \/ \E i \in 1..MaxCtl : PanicDone(i)

SpecBot == BotInit /\ [][BotNext]_vars

\* the step changes the total value on display and leaves the config as it
\* was, with the allocation controls on display afterwards
TotalMoves ==
    /\ botConfig # NULL
    /\ portfolioSummary # NULL
    /\ AllocationEditable'
    /\ botConfig' = botConfig
    /\ portfolioSummary'.total_value # portfolioSummary.total_value

\* C14: when the total value changes and the user edits nothing, a
\* FIXED_AMOUNT config keeps its dollar budget and its displayed percentage
\* is recomputed from the new total; a PERCENTAGE config keeps its
\* percentage and its dollar budget is recomputed from the new total.
C14_TotalChange ==
    [][TotalMoves =>
         IF botConfig.portfolio_allocation_type = "FIXED_AMOUNT"
         THEN /\ Budget' = botConfig.portfolio_allocation_amount
              /\ page = "Configuration" =>
                    ConfigurationPercentLabel(botConfig') =
                        DerivedPercentage(botConfig.portfolio_allocation_amount,
                                          portfolioSummary')
         ELSE /\ botConfig'.portfolio_allocation
                    = botConfig.portfolio_allocation
              /\ Budget' = RoundDiv(botConfig.portfolio_allocation
                                      * portfolioSummary'.total_value, 100)]_vars

\* the back end answers control request i in this step
Answers(i) ==
    /\ i \in 1..Len(ctl)
    /\ Len(ctl') = Len(ctl)
    /\ ctl[i].resp = Pending
    /\ ctl'[i].resp # Pending

\* C15: of start intents issued in immediate succession exactly one moves
\* the bot from INACTIVE to ACTIVE; a start that finds the bot active is
\* answered AlreadyActive and changes nothing, trades_bought_today included.
C15_DuplicateStart ==
    [][\A i \in 1..MaxCtl :
          (Answers(i) /\ ctl[i].kind = "start") =>
              IF srvBot.is_active
              THEN /\ ctl'[i].resp = Err("AlreadyActive")
                   /\ srvBot' = srvBot
              ELSE /\ ctl'[i].resp = Ok("started")
                   /\ srvBot' = [srvBot EXCEPT !.is_active = TRUE]]_vars

\* two start requests were in flight together: one started the bot, the
\* other was refused
C15_Witness ==
    \E i, j \in 1..Len(ctl) :
        /\ ctl[i].kind = "start" /\ ctl[i].resp = Ok("started")
        /\ ctl[j].kind = "start" /\ ctl[j].resp = Err("AlreadyActive")
        /\ srvBot.is_active
        /\ srvBot.trades_bought_today = 1

\* C16: a panic-sell that arrives while one is in progress is rejected with
\* PanicInProgress and starts no second liquidation.
C16_SecondPanicRejected ==
    [][\A i \in 1..MaxCtl :
          (Answers(i) /\ ctl[i].kind = "panic" /\ srvPanic) =>
              /\ ctl'[i].resp = Err("PanicInProgress")
              /\ UNCHANGED <<srvCash, srvHoldings, srvTrades, srvBot,
                             srvPanic>>]_vars

\* a panic-sell is running and another one has been rejected meanwhile
C16_Witness ==
    /\ srvPanic
    /\ \E i, j \in 1..Len(ctl) :
          /\ ctl[i].resp = Running
          /\ ctl[j].resp = Err("PanicInProgress")

\* a panic-sell request is in flight
PanicInFlight == \E i \in 1..Len(ctl) : ctl[i].kind = "panic"

\* C17: from the moment a panic-sell request is issued until it resolves
\* the page issues no start, stop or further panic-sell request.
C17_NoControlDuringPanic ==
    [][PanicInFlight => Len(ctl') <= Len(ctl)]_vars

\* the step issues a panic-sell request
IssuesPanic ==
    /\ Len(ctl') = Len(ctl) + 1
    /\ ctl'[Len(ctl')].kind = "panic"

NewTrades == SubSeq(srvTrades', Len(srvTrades) + 1, Len(srvTrades'))

MinCashReserve == 1

\* a manualTrade intent just submitted
NewTrade(s, action, q, p) ==
    [kind |-> "trade", symbol |-> s, action |-> action, quantity |-> q,
     price |-> p, resp |-> Pending, status |-> Pending]

\* holdings after q shares of s are bought at p: the average cost is the
\* whole cost over the whole quantity
AfterBuy(hs, s, q, p) ==
    LET held == {h \in hs : h.symbol = s}
        cost == IF held = {} THEN 0
                ELSE LET h == CHOOSE x \in held : TRUE
                     IN  h.quantity * h.average_cost
        qty == HeldQty(hs, s) + q
    IN  (hs \ held) \cup {Holding(s, qty, RoundDiv(cost + q * p, qty), p)}

\* holdings after q of the shares held of s are sold at p
AfterSell(hs, s, q, p) ==
    LET held == {h \in hs : h.symbol = s}
        h == CHOOSE x \in held : TRUE
    IN  IF h.quantity = q THEN hs \ held
        ELSE (hs \ held)
                 \cup {[h EXCEPT !.quantity = @ - q, !.current_price = p]}

\* the gateway checking the cost of a BUY against the cash only
Refusal_NoReserve(t) ==
    IF t.action = "BUY" /\ t.quantity * t.price > srvCash
    THEN Err("InsufficientFunds")
    ELSE IF t.action = "SELL" /\ HeldQty(srvHoldings, t.symbol) < t.quantity
    THEN Err("NoSuchPosition")
    ELSE NULL

\* why the gateway refuses trade t, or NULL when it accepts it
Refusal(t) ==
    IF t.action = "BUY" /\ t.quantity * t.price > srvCash - MinCashReserve
    THEN Err("InsufficientFunds")
    ELSE IF t.action = "SELL" /\ HeldQty(srvHoldings, t.symbol) < t.quantity
    THEN Err("NoSuchPosition")
    ELSE NULL

\* the intent manualTrade(symbol, action, quantity) at the quoted price
ManualTrade(s, action, q, p) ==
    /\ Len(ctl) < MaxCtl
    /\ ctl' = Append(ctl, NewTrade(s, action, q, p))
    /\ UNCHANGED <<uiVars, valVars, srvVars, netVars, cliVars, ghostVars, toggling,
                   srvPanic>>

\* (variant: the gateway counting the trade it refuses)
SrvRejectTrade_Counts(i) ==
    /\ i \in 1..Len(ctl)
    /\ ctl[i].kind = "trade"
    /\ ctl[i].resp = Pending
    /\ Refusal(ctl[i]) # NULL
    /\ ctl' = [ctl EXCEPT ![i].resp = Refusal(ctl[i])]
    /\ srvBot' = IF ctl[i].action = "BUY"
                 THEN [srvBot EXCEPT !.trades_bought_today = @ + 1]
                 ELSE [srvBot EXCEPT !.trades_sold_today = @ + 1]
    /\ UNCHANGED <<uiVars, valVars, srvCash, srvHoldings, srvVer, srvTrades,
                   srvConfig, netVars, cliVars, ghostVars, toggling, srvPanic>>

\* the gateway refuses trade i and changes nothing
SrvRejectTrade(i) ==
    /\ i \in 1..Len(ctl)
    /\ ctl[i].kind = "trade"
    /\ ctl[i].resp = Pending
    /\ Refusal(ctl[i]) # NULL
    /\ ctl' = [ctl EXCEPT ![i].resp = Refusal(ctl[i])]
    /\ UNCHANGED <<uiVars, valVars, srvVars, netVars, cliVars, ghostVars, toggling,
                   srvPanic>>

\* (variant: the cash left as it was by a BUY)
CashAfter_NoDebit(t) ==
    IF t.action = "BUY" THEN srvCash
    ELSE srvCash + t.quantity * t.price

\* the cash after trade t: a BUY pays quantity * price, a SELL receives it
CashAfter(t) ==
    IF t.action = "BUY" THEN srvCash - t.quantity * t.price
    ELSE srvCash + t.quantity * t.price

\* the gateway executes trade i: one Trade record, the position and the
\* cash change, the daily counter counts it and the portfolio is pushed
SrvExecuteTrade(i) ==
    LET t == ctl[i]
        amount == t.quantity * t.price
    IN  /\ i \in 1..Len(ctl)
        /\ t.kind = "trade"
        /\ t.resp = Pending
        /\ Refusal(t) = NULL
        /\ srvVer < MaxVer
        /\ srvCash' = CashAfter(t)
        /\ srvHoldings' =
              IF t.action = "BUY"
              THEN AfterBuy(srvHoldings, t.symbol, t.quantity, t.price)
              ELSE AfterSell(srvHoldings, t.symbol, t.quantity, t.price)
        /\ srvTrades' = Append(srvTrades,
                               [symbol |-> t.symbol, action |-> t.action,
                                quantity |-> t.quantity, price |-> t.price,
                                total_amount |-> amount])
        /\ srvBot' = IF t.action = "BUY"
                     THEN [srvBot EXCEPT !.trades_bought_today = @ + 1]
                     ELSE [srvBot EXCEPT !.trades_sold_today = @ + 1]
        /\ srvVer' = srvVer + 1
        /\ wsQueue' = Broadcast(PortfolioUpdate(srvCash', srvHoldings', srvVer'))
        /\ ctl' = [ctl EXCEPT ![i].resp = Ok("executed")]
        /\ UNCHANGED <<uiVars, valVars, srvConfig, polls, saves, cliVars, ghostVars,
                       toggling, srvPanic>>

\* the answer to trade i reaches the caller
TradeDone(i) ==
    /\ i \in 1..Len(ctl)
    /\ ctl[i].kind = "trade"
    /\ ctl[i].resp # Pending
    /\ ctl' = RemoveAt(ctl, i)
    /\ UNCHANGED <<uiVars, valVars, srvVars, netVars, cliVars, ghostVars, toggling,
                   srvPanic>>

(***************************************************************************)
(* Trade specification: manual trades against a fresh account              *)
(***************************************************************************)
\* quantities of a manual trade
TradeQuantities == 1..MaxQty

\* the account and the quote of the worked example: cash 20.00, BUY at 15.00
ExampleCash == 20
ExamplePrice == 15
\* prices quoted to a manual trade
TradePrices == SrvPrices \cup {ExamplePrice}

TradeInit ==
    /\ NoVal
    /\ UiIdle
    /\ srvCash \in {InitialCash, ExampleCash}
    /\ srvHoldings = {}
    /\ srvVer = 0
    /\ srvTrades = <<>>
    /\ srvBot = [is_active |-> FALSE, trades_bought_today |-> 0,
                 trades_sold_today |-> 0]
    /\ srvConfig = DefaultConfig
    /\ ClientInit("Trading")
    /\ polls = <<>>
    /\ BotIdle

TradeNext ==
    \/ \E s \in Symbols, a \in {"BUY", "SELL"}, q \in TradeQuantities,
          p \in TradePrices : ManualTrade(s, a, q, p)
    \/ \E i \in 1..MaxCtl : SrvRejectTrade(i)
    \/ \E i \in 1..MaxCtl : SrvExecuteTrade(i)
    \/ \E i \in 1..MaxCtl : TradeDone(i)
    \/ WsMessage

SpecTrade == TradeInit /\ [][TradeNext]_vars

\* C20: a manual BUY whose cost quantity * price exceeds the cash above the
\* minimum cash reserve is rejected with InsufficientFunds, and cash,
\* holdings and the trade log stay as they were.
C20_InsufficientFunds ==
    [][\A i \in 1..MaxCtl :
          (/\ Answers(i)
           /\ ctl[i].kind = "trade"
           /\ ctl[i].action = "BUY"
           /\ ctl[i].quantity * ctl[i].price > srvCash - MinCashReserve)
              => /\ ctl'[i].resp = Err("InsufficientFunds")
                 /\ UNCHANGED <<srvCash, srvHoldings, srvTrades>>]_vars

\* a BUY the cash alone would cover has been rejected for the reserve
C20_Witness ==
    \E i \in 1..Len(ctl) :
        /\ ctl[i].kind = "trade"
        /\ ctl[i].resp = Err("InsufficientFunds")
        /\ ctl[i].quantity * ctl[i].price <= srvCash
        /\ ctl[i].quantity * ctl[i].price > srvCash - MinCashReserve

\* the step is the gateway executing trade i
Executes(i) ==
    /\ Answers(i)
    /\ ctl[i].kind = "trade"
    /\ ctl'[i].resp = Ok("executed")

\* C21: trades_bought_today and trades_sold_today change only in the step
\* in which the gateway confirms a trade: the counter of the trade's side
\* then grows by one; submitting an intent and a refused trade leave both
\* as they were.
C21_CountersOnSuccess ==
    [][/\ srvBot' # srvBot =>
             \E i \in 1..MaxCtl :
                /\ Executes(i)
                /\ Len(srvTrades') = Len(srvTrades) + 1
                /\ srvBot' =
                      IF ctl[i].action = "BUY"
                      THEN [srvBot EXCEPT !.trades_bought_today = @ + 1]
                      ELSE [srvBot EXCEPT !.trades_sold_today = @ + 1]
       /\ Len(ctl') > Len(ctl) => srvBot' = srvBot
       /\ \A i \in 1..MaxCtl :
             (Answers(i) /\ ctl[i].kind = "trade"
                 /\ ctl'[i].resp # Ok("executed")) => srvBot' = srvBot]_vars

\* one trade has been refused and one BUY has been counted
C21_Witness ==
    /\ srvBot.trades_bought_today = 1
    /\ srvBot.trades_sold_today = 0
    /\ Len(srvTrades) = 1
    /\ \E i \in 1..Len(ctl) :
          ctl[i].kind = "trade" /\ ctl[i].resp \notin {Pending, Ok("executed")}

\* C22: a trade the gateway executes appends exactly one Trade record, that
\* of the intent, and the portfolio it reports is the one recomputed after
\* the trade; from cash 20 and no holdings a BUY of 1 share at 15 leaves
\* cash 5 and a total value of 5 + 1 * the current price.
C22_TradeRecorded ==
    [][\A i \in 1..MaxCtl :
          Executes(i) =>
             LET t == ctl[i]
                 sent == wsQueue'[Len(wsQueue')].payload
             IN  /\ srvTrades' =
                       Append(srvTrades,
                              [symbol |-> t.symbol, action |-> t.action,
                               quantity |-> t.quantity, price |-> t.price,
                               total_amount |-> t.quantity * t.price])
                 /\ Len(wsQueue') = Len(wsQueue) + 1
                 /\ sent.cash_balance = srvCash'
                 /\ sent.total_value = srvCash' + HoldingsValue(srvHoldings')
                 /\ (/\ srvCash = ExampleCash
                     /\ srvHoldings = {}
                     /\ t.action = "BUY"
                     /\ t.quantity = 1
                     /\ t.price = ExamplePrice)
                       => /\ srvCash' = 5
                          /\ \E h \in srvHoldings' :
                                /\ srvHoldings' = {h}
                                /\ h.quantity = 1
                                /\ sent.total_value
                                      = 5 + 1 * h.current_price]_vars

\* the BUY of the example has been executed on the example account
C22_Witness ==
    /\ srvCash = 5
    /\ srvTrades = <<[symbol |-> "A", action |-> "BUY", quantity |-> 1,
                      price |-> ExamplePrice, total_amount |-> ExamplePrice]>>
    /\ srvHoldings = {Holding("A", 1, ExamplePrice, ExamplePrice)}

(***************************************************************************)
(* Trading page: analyze and execute-trade                                 *)
(***************************************************************************)
\* api.ts APIResponse: success, message and the optional data
APIResponse(success, message, data) ==
    [success |-> success, message |-> message, data |-> data]

\* an analyze or execute-trade request just issued for symbol s; upstream
\* records that the Decision Engine or the Market Data Provider failed
NewRequest(kind, s) ==
    [kind |-> kind, symbol |-> s, resp |-> Pending, status |-> Pending,
     upstream |-> FALSE]

\* Trading.tsx fetchTrades, after the await, both requests fulfilled
TradingFetchDone(i) ==
    /\ i \in 1..Len(polls)
    /\ polls[i].page = "Trading"
    /\ polls[i].batch # Pending
    /\ polls[i].hold # Pending
    /\ trades' = polls[i].batch.history
    /\ holdings' = polls[i].hold.ok
    /\ loading' = FALSE
    /\ lastFetchFailed' = FALSE
    /\ polls' = RemoveAt(polls, i)
    /\ UNCHANGED <<uiVars, botVars, valVars, srvVars, wsQueue, saves, page,
                   portfolioSummary, botStatus, tradingStats, botConfig,
                   error, lastMessage, lastPollVer>>

\* Trading.tsx fetchTrades, catch
TradingFetchFailed(i) ==
    /\ i \in 1..Len(polls)
    /\ polls[i].page = "Trading"
    /\ error' = Err("Failed to load trading data")
    /\ loading' = FALSE
    /\ lastFetchFailed' = TRUE
    /\ polls' = RemoveAt(polls, i)
    /\ UNCHANGED <<uiVars, botVars, valVars, srvVars, wsQueue, saves, page,
                   dataVars, botConfig, lastMessage, lastPollVer>>

\* Trading.tsx handleAnalyzeStock, up to the await; the button is disabled
\* while analyzing and the page shows only a spinner while loading
TradingAnalyze(s) ==
    /\ page = "Trading"
    /\ ~loading
    /\ ~analyzing
    /\ Len(ctl) < MaxCtl
    /\ analyzing' = TRUE
    /\ ctl' = Append(ctl, NewRequest("analyze", s))
    /\ UNCHANGED <<valVars, srvVars, netVars, cliVars, ghostVars, toggling,
                   srvPanic, analysisResult, wsVars>>

\* the Decision Engine recommends action for the symbol of request i
SrvAnalyze(i, action) ==
    /\ i \in 1..Len(ctl)
    /\ ctl[i].kind = "analyze"
    /\ ctl[i].resp = Pending
    /\ ctl' = [ctl EXCEPT ![i].resp =
                  Ok(APIResponse(TRUE, "analysis",
                                 [symbol |-> ctl[i].symbol,
                                  action |-> action]))]
    /\ UNCHANGED <<uiVars, valVars, srvVars, netVars, cliVars, ghostVars,
                   toggling, srvPanic>>

\* how a failure is reported to the page: the request is rejected (an HTTP
\* error), or it is answered with success false and the message
FailureReports == {Failed, Ok(APIResponse(FALSE, "upstream", NULL))}

\* the Decision Engine or the Market Data Provider fails on request i:
\* nothing is traded
SrvUpstreamFails(i, report) ==
    /\ i \in 1..Len(ctl)
    /\ ctl[i].kind \in {"analyze", "execute"}
    /\ ctl[i].resp = Pending
    /\ ctl' = [ctl EXCEPT ![i].resp = report, ![i].upstream = TRUE]
    /\ UNCHANGED <<uiVars, valVars, srvVars, netVars, cliVars, ghostVars,
                   toggling, srvPanic>>

\* Trading.tsx handleAnalyzeStock, after the await
AnalyzeDone(i) ==
    /\ i \in 1..Len(ctl)
    /\ ctl[i].kind = "analyze"
    /\ ctl[i].resp # Pending
    /\ IF ctl[i].resp = Failed
       THEN /\ error' = Err("Failed to analyze stock")
            /\ UNCHANGED analysisResult
       ELSE /\ analysisResult' = ctl[i].resp.ok
            /\ UNCHANGED error
    /\ analyzing' = FALSE
    /\ ctl' = RemoveAt(ctl, i)
    /\ UNCHANGED <<valVars, srvVars, netVars, page, dataVars, botConfig,
                   loading, lastMessage, ghostVars, toggling, srvPanic,
                   wsVars>>

\* Trading.tsx handleExecuteTrade, up to the await; the button is shown
\* with a result whose data has an action other than HOLD
TradingExecute ==
    /\ page = "Trading"
    /\ ~loading
    /\ analysisResult # NULL
    /\ analysisResult.data # NULL
    /\ analysisResult.data.action # "HOLD"
    /\ Len(ctl) < MaxCtl
    /\ ctl' = Append(ctl, NewRequest("execute", analysisResult.data.symbol))
    /\ UNCHANGED <<uiVars, valVars, srvVars, netVars, cliVars, ghostVars,
                   toggling, srvPanic>>

\* executeRecommendation: the Decision Engine asks for action at price p
\* and the trade is applied the way a manual trade is
SrvExecuteAI(i, action, p) ==
    LET t == NewTrade(ctl[i].symbol, action, 1, p) IN
    /\ i \in 1..Len(ctl)
    /\ ctl[i].kind = "execute"
    /\ ctl[i].resp = Pending
    /\ Refusal(t) = NULL
    /\ srvVer < MaxVer
    /\ srvCash' = CashAfter(t)
    /\ srvHoldings' = IF action = "BUY"
                      THEN AfterBuy(srvHoldings, t.symbol, 1, p)
                      ELSE AfterSell(srvHoldings, t.symbol, 1, p)
    /\ srvTrades' = Append(srvTrades,
                           [symbol |-> t.symbol, action |-> action,
                            quantity |-> 1, price |-> p, total_amount |-> p])
    /\ srvBot' = IF action = "BUY"
                 THEN [srvBot EXCEPT !.trades_bought_today = @ + 1]
                 ELSE [srvBot EXCEPT !.trades_sold_today = @ + 1]
    /\ srvVer' = srvVer + 1
    /\ wsQueue' = Broadcast(PortfolioUpdate(srvCash', srvHoldings', srvVer'))
    /\ ctl' = [ctl EXCEPT ![i].resp =
                  Ok(APIResponse(TRUE, "executed",
                                 [symbol |-> t.symbol, action |-> action]))]
    /\ UNCHANGED <<uiVars, valVars, srvConfig, polls, saves, cliVars,
                   ghostVars, toggling, srvPanic>>

\* Trading.tsx handleExecuteTrade, after the await: a rejected request sets
\* the error; any response that arrives is stored and fetchTrades() is
\* called
ExecuteDone(i) ==
    /\ i \in 1..Len(ctl)
    /\ ctl[i].kind = "execute"
    /\ ctl[i].resp # Pending
    /\ IF ctl[i].resp = Failed
       THEN /\ error' = Err("Failed to execute trade")
            /\ UNCHANGED <<analysisResult, polls, loading>>
       ELSE /\ Len(polls) < MaxPolls
            /\ analysisResult' = ctl[i].resp.ok
            /\ polls' = Append(polls, NewPoll("Trading", TRUE))
            /\ loading' = TRUE
            /\ UNCHANGED error
    /\ ctl' = RemoveAt(ctl, i)
    /\ UNCHANGED <<valVars, srvVars, wsQueue, saves, page, dataVars,
                   botConfig, lastMessage, ghostVars, toggling, srvPanic,
                   analyzing, wsVars>>

(***************************************************************************)
(* Analysis specification: the Trading page against the Decision Engine    *)
(***************************************************************************)
AnalysisInit ==
    /\ NoVal
    /\ UiIdle
    /\ BotIdle
    /\ SrvInit
    /\ ClientInit("Trading")
    /\ polls = <<NewPoll("Trading", TRUE)>>

AnalysisNext ==
    \/ \E i \in 1..MaxPolls : ServeBatch(i)
    \/ \E i \in 1..MaxPolls : ServeHoldings(i)
    \/ \E i \in 1..MaxPolls : TradingFetchDone(i)
    \/ \E i \in 1..MaxPolls : TradingFetchFailed(i)
    \/ \E s \in Symbols : TradingAnalyze(s)
    \/ \E i \in 1..MaxCtl, a \in {"BUY", "SELL", "HOLD"} : SrvAnalyze(i, a)
    \/ \E i \in 1..MaxCtl, r \in FailureReports : SrvUpstreamFails(i, r)
    \/ \E i \in 1..MaxCtl : AnalyzeDone(i)
    \/ TradingExecute
    \/ \E i \in 1..MaxCtl, a \in {"BUY", "SELL"}, p \in SrvPrices :
          SrvExecuteAI(i, a, p)
    \/ \E i \in 1..MaxCtl : ExecuteDone(i)
    \/ WsMessage

SpecAnalysis == AnalysisInit /\ [][AnalysisNext]_vars

\* the step hands the answer to request i, which failed upstream, to the
\* page
UpstreamFailureArrives(i) ==
    /\ i \in 1..Len(ctl)
    /\ ctl[i].kind \in {"analyze", "execute"}
    /\ ctl[i].upstream
    /\ ctl' = RemoveAt(ctl, i)

\* the page shows an error: the error alert, or the alert of a result
\* whose success is false
ErrorOnDisplay ==
    \/ error # NULL
    \/ analysisResult # NULL /\ ~analysisResult.success

\* C25: when analyze or execute-trade fails upstream no trade is made, and
\* when the failure reaches the page the error is shown, the trade list and
\* the holdings stay as they were and no refresh is started.
C25_UpstreamFailure ==
    [][/\ (\E i \in 1..MaxCtl :
              i \in 1..Len(ctl) /\ ~ctl[i].upstream /\ Len(ctl') = Len(ctl)
              /\ ctl'[i].upstream)
          => UNCHANGED <<srvCash, srvHoldings, srvTrades>>
       /\ \A i \in 1..MaxCtl :
             UpstreamFailureArrives(i) =>
                /\ ErrorOnDisplay'
                /\ UNCHANGED <<trades, holdings, polls, loading>>]_vars

(***************************************************************************)
(* Push connection                                                         *)
(***************************************************************************)
\* maximal number of frames sent and not yet received
MaxFrames == 2

\* WebSocketContext.tsx ws.onopen
WsOpen ==
    /\ socket = "CONNECTING"
    /\ socket' = "OPEN"
    /\ isConnected' = TRUE
    /\ UNCHANGED <<analyzing, analysisResult, lastIgnored, botVars, valVars,
                   srvVars, netVars, cliVars, ghostVars>>

\* the connection drops, WebSocketContext.tsx ws.onclose: the flag is
\* cleared and no new WebSocket is made; frames under way are lost
WsClose ==
    /\ socket = "OPEN"
    /\ socket' = "CLOSED"
    /\ isConnected' = FALSE
    /\ wsQueue' = <<>>
    /\ UNCHANGED <<analyzing, analysisResult, lastIgnored, botVars, valVars,
                   srvVars, polls, saves, cliVars, ghostVars>>

\* the back end answers the 'ping' the client sends every 30 s
SrvPong ==
    /\ isConnected
    /\ Len(wsQueue) < MaxFrames
    /\ wsQueue' = Append(wsQueue, Pong)
    /\ UNCHANGED <<uiVars, botVars, valVars, srvVars, polls, saves, cliVars,
                   ghostVars>>

\* the back end sends a text that is not JSON
SrvText ==
    /\ isConnected
    /\ Len(wsQueue) < MaxFrames
    /\ wsQueue' = Append(wsQueue, Malformed)
    /\ UNCHANGED <<uiVars, botVars, valVars, srvVars, polls, saves, cliVars,
                   ghostVars>>

(***************************************************************************)
(* Connection specification: the provider has just made the WebSocket and  *)
(* the page its first fetch                                                *)
(***************************************************************************)
WsInit ==
    /\ NoVal
    /\ BotIdle
    /\ SrvInit
    /\ analyzing = FALSE
    /\ analysisResult = NULL
    /\ isConnected = FALSE
    /\ socket = "CONNECTING"
    /\ lastIgnored = NULL
    /\ \E pg \in {"Dashboard", "Portfolio"} :
          /\ ClientInit(pg)
          /\ polls = <<NewPoll(pg, TRUE)>>

\* the interval of the page fires
FetchStarts ==
    \/ DashboardFetchStart(FALSE)
    \/ PortfolioFetchStart

\* the back end answers the requests of a fetch
FetchServed ==
    \/ \E i \in 1..MaxPolls : ServeBatch(i)
    \/ \E i \in 1..MaxPolls : ServeHoldings(i)

\* the answers of a fetch reach the page
FetchArrives ==
    \/ \E i \in 1..MaxPolls : DashboardFetchDone(i, {})
    \/ \E i \in 1..MaxPolls : PortfolioFetchDone(i)

WsNext ==
    \/ WsOpen
    \/ WsClose
    \/ SrvPong
    \/ SrvText
    \/ \E s \in Symbols, a \in {"BUY", "SELL"} : SrvTrade(s, a, 1)
    \/ WsMessage
    \/ FetchStarts
    \/ FetchServed
    \/ FetchArrives

SpecWs == WsInit /\ [][WsNext]_vars

\* the interval keeps firing, requests are answered and the answers arrive;
\* a handshake under way completes
SpecWsFair ==
    /\ SpecWs
    /\ WF_vars(WsOpen)
    /\ WF_vars(WsMessage)
    /\ WF_vars(FetchStarts)
    /\ WF_vars(FetchServed)
    /\ WF_vars(FetchArrives)

\* C23: after the push connection has dropped it is eventually open again,
\* and meanwhile the poll loop keeps refreshing.
C23_Reconnects ==
    /\ (socket = "CLOSED") ~> isConnected
    /\ []<>(polls = <<>>) /\ []<>(polls # <<>>)

\* the second part of C23 alone: fetches keep being issued and completed,
\* whatever the connection does
PollLoopGoesOn == []<>(polls = <<>>) /\ []<>(polls # <<>>)

\* the step receives a frame that is 'pong' or is not JSON
ReceivesText ==
    /\ isConnected
    /\ wsQueue # <<>>
    /\ IsText(Head(wsQueue))
    /\ wsQueue' = Tail(wsQueue)

\* C24: a frame that is 'pong' or whose text is not JSON is ignored:
\* lastMessage and every field of the snapshot stay as they were.
C24_TextIgnored ==
    [][ReceivesText => UNCHANGED <<lastMessage, dataVars>>]_vars

\* a heartbeat answer has been ignored while a message is on display
C24_Witness ==
    /\ lastIgnored \in {Pong, Malformed}
    /\ lastMessage # NULL
    /\ portfolioSummary # NULL

\* C28: a push delta received while the summary is null is dropped: the
\* summary stays null, and when a summary is stored later it is the one a
\* fetch brought, without the delta.
C28_NullDropsDelta ==
    [][/\ (PushStep /\ portfolioSummary = NULL) => portfolioSummary' = NULL
       /\ (portfolioSummary = NULL /\ portfolioSummary' # NULL) =>
             \E i \in 1..Len(polls) :
                /\ polls' = Settled(polls, i)
                /\ polls[i].batch # Pending
                /\ portfolioSummary' = polls[i].batch.summary]_vars

\* a portfolio update has been received before the first fetch completed
C28_Witness ==
    /\ portfolioSummary = NULL
    /\ loading
    /\ polls # <<>>
    /\ lastMessage # NULL
    /\ MessageType(lastMessage) = "portfolio_update"

\* the totals on display are those of the push delta last received, which
\* is later than the last fetch result stored
PushOnDisplay ==
    /\ portfolioSummary # NULL
    /\ lastMessage # NULL
    /\ MessageType(lastMessage) = "portfolio_update"
    /\ lastMessage.ver > lastPollVer
    /\ portfolioSummary.cash_balance = lastMessage.payload.cash_balance
    /\ portfolioSummary.total_value = lastMessage.payload.total_value

\* the step stores the result of fetch i, every request of which succeeded
StoresFetch(i) ==
    /\ i \in 1..Len(polls)
    /\ polls' = Settled(polls, i)
    /\ polls[i].batch # Pending
    /\ ~lastFetchFailed'
    /\ lastPollVer' = polls[i].batch.ver

\* C27: the result of a fetch that the back end answered before the push
\* delta on display was sent does not overwrite the cash_balance and
\* total_value that the delta set.
C27_PollKeepsNewerPush ==
    [][\A i \in 1..MaxPolls :
          (/\ PushOnDisplay
           /\ StoresFetch(i)
           /\ polls[i].batch.ver < lastMessage.ver)
              => /\ portfolioSummary' # NULL
                 /\ portfolioSummary'.cash_balance
                       = portfolioSummary.cash_balance
                 /\ portfolioSummary'.total_value
                       = portfolioSummary.total_value]_vars

(***************************************************************************)
(* Overlap specification: the interval fires again before the fetch before *)
(* it has been answered (the requests have no timeout)                     *)
(***************************************************************************)
\* maximal number of fetches in flight when fetches overlap
MaxOverlap == 2

\* Dashboard.tsx: the interval calls fetchDashboardData(false) whether or
\* not the fetch before it has been answered
DashboardFetchAgain ==
    /\ page = "Dashboard"
    /\ Len(polls) < MaxOverlap
    /\ error' = NULL
    /\ polls' = Append(polls, NewPoll("Dashboard", FALSE))
    /\ UNCHANGED <<uiVars, botVars, valVars, srvVars, wsQueue, saves, page,
                   dataVars, botConfig, loading, lastMessage, ghostVars>>

\* Portfolio.tsx: the interval calls fetchPortfolioData whether or not the
\* fetch before it has been answered
PortfolioFetchAgain ==
    /\ page = "Portfolio"
    /\ Len(polls) < MaxOverlap
    /\ loading' = TRUE
    /\ error' = NULL
    /\ polls' = Append(polls, NewPoll("Portfolio", TRUE))
    /\ UNCHANGED <<uiVars, botVars, valVars, srvVars, wsQueue, saves, page,
                   dataVars, botConfig, lastMessage, ghostVars>>

OverlapNext ==
    \/ \E s \in Symbols, a \in {"BUY", "SELL"} : SrvTrade(s, a, 1)
    \/ DashboardFetchAgain
    \/ PortfolioFetchAgain
    \/ \E i \in 1..MaxOverlap : ServeBatch(i)
    \/ \E i \in 1..MaxOverlap : ServeHoldings(i)
    \/ \E i \in 1..MaxOverlap : DashboardFetchDone(i, {})
    \/ \E i \in 1..MaxOverlap : PortfolioFetchDone(i)

SpecOverlap == SyncInit /\ [][OverlapNext]_vars

\* C26: of two fetches in flight together whose responses arrive in the
\* reverse order, the one issued later stays on display: the response of
\* the one issued earlier, arriving last, overwrites nothing.
C26_LaterPollWins ==
    [][\A i \in 1..MaxOverlap :
          (/\ i \in 1..Len(polls)
           /\ polls[i].late
           /\ polls' = Settled(polls, i))
              => UNCHANGED <<portfolioSummary, holdings, trades, botStatus,
                             tradingStats>>]_vars

\* the start and stop requests in flight
TogglesInFlight == {i \in 1..Len(ctl) : ctl[i].kind \in {"start", "stop"}}

\* C29: on the Dashboard a toggle is in flight exactly while the in-flight
\* flag is set: while it is set a further toggle issues no request, so at
\* most one start or stop is outstanding, and the flag is cleared when the
\* request resolves, with success or with failure.
C29_OneToggleInFlight ==
    page = "Dashboard" =>
        /\ Cardinality(TogglesInFlight) <= 1
        /\ toggling = (TogglesInFlight # {})

\* a toggle has failed on the Dashboard and the flag is cleared again
C29_Witness ==
    /\ page = "Dashboard"
    /\ ~toggling
    /\ error = Err("Failed to toggle bot status")

(***************************************************************************)
(* Save specification: a second config update is issued while the first is *)
(* still outstanding                                                       *)
(***************************************************************************)
\* maximal number of config updates in flight when updates overlap
MaxPending == 2

\* Dashboard.tsx, allocation TextField onBlur up to the await, whether or
\* not an update is outstanding
DashboardAllocBlurAgain ==
    LET val == DashboardBudget(botConfig, portfolioSummary) IN
    /\ page = "Dashboard"
    /\ AllocationEditable
    /\ Len(saves) < MaxPending
    /\ val >= 0
    /\ saves' = Append(saves,
                       [patch |-> [portfolio_allocation_type |-> "FIXED_AMOUNT",
                                   portfolio_allocation_amount |-> val],
                        resp |-> Pending, late |-> FALSE])
    /\ UNCHANGED <<uiVars, botVars, valVars, srvVars, wsQueue, polls, cliVars,
                   ghostVars>>

\* Configuration.tsx, allocation TextField onBlur up to the await, whether
\* or not an update is outstanding
ConfigurationAllocBlurAgain ==
    LET val == ConfigurationBudget(botConfig, portfolioSummary) IN
    /\ page = "Configuration"
    /\ AllocationEditable
    /\ Len(saves) < MaxPending
    /\ val >= 0
    /\ saves' = Append(saves,
                       [patch |-> [portfolio_allocation_type |-> "FIXED_AMOUNT",
                                   portfolio_allocation_amount |-> val,
                                   portfolio_allocation |->
                                       DerivedPercentage(val, portfolioSummary)],
                        resp |-> Pending, late |-> FALSE])
    /\ UNCHANGED <<uiVars, botVars, valVars, srvVars, wsQueue, polls, cliVars,
                   ghostVars>>

SaveNext ==
    \/ \E val \in AmountInputs : DashboardAllocChange(val)
    \/ \E val \in AmountInputs : ConfigurationAllocChange(val)
    \/ DashboardAllocBlurAgain
    \/ ConfigurationAllocBlurAgain
    \/ \E i \in 1..MaxPending : SrvUpdateConfig(i)
    \/ \E i \in 1..MaxPending : SrvRejectConfig(i)
    \/ \E i \in 1..MaxPending : SaveDone(i)

SpecSave == AllocInit /\ [][SaveNext]_vars

\* C30: of two config updates outstanding together whose responses arrive
\* in the reverse order, the response to the one issued later stays: the
\* response to the one issued earlier, arriving last, leaves the local
\* config as it is, equal to what the back end holds in the end.
C30_LaterSaveWins ==
    [][\A i \in 1..MaxPending :
          (/\ SaveCompletes(i)
           /\ saves[i].late
           /\ saves[i].resp # Failed)
              => botConfig' = botConfig]_vars
====
